---- MODULE Spec2Model ----
(***************************************************************************)
(* Model of app/src/icon.c: the icon loading pipeline                       *)
(*   scrcpy_icon_load -> get_icon_path, load_from_path -> decode_image      *)
(* and scrcpy_icon_destroy.                                                 *)
(*                                                                          *)
(* Every basic block of the C code is one action; pc is the position of    *)
(* the single thread.  The decode framework (libavformat/libavcodec), SDL   *)
(* and libc are the environment: each of their calls succeeds or fails      *)
(* nondeterministically, and their effect on the objects they own is        *)
(* recorded in mem.                                                         *)
(***************************************************************************)
EXTENDS Integers, Sequences, FiniteSets, TLC

\* ---- bounds of the model ------------------------------------------------
MaxCalls == 2   \* calls of scrcpy_icon_load in one run
MaxW == 2       \* largest frame width
MaxH == 1       \* largest frame height
MaxPad == 1     \* largest padding (bytes) the framework adds to a row

NULL == 0
NotReturned == -1   \* no value returned yet
CallIds == 1..MaxCalls
Ptr == {NULL} \cup CallIds

Kinds == {"path", "ctx", "codec_ctx", "packet", "frame", "surface"}
Live == {"alloc", "open"}

\* ---- pixel formats ------------------------------------------------------
\* enum AVPixelFormat values a decoder may put in frame->format; NOFMT stands
\* for a value without descriptor.
TableAVFormats ==
    {"RGB24", "BGR24", "ARGB", "RGBA", "ABGR", "BGRA", "RGB565BE", "RGB555BE",
     "BGR565BE", "BGR555BE", "RGB444BE", "BGR444BE"}
OtherPackedRGB == {"RGB565LE", "RGB48BE", "0RGB"}
PlanarRGB == {"GBRP"}
NonRGB == {"YUV420P", "YUYV422", "GRAY8", "PAL8"}
AVFormats == TableAVFormats \cup OtherPackedRGB \cup PlanarRGB \cup NonRGB
                 \cup {"NOFMT"}

SDL_PIXELFORMAT_UNKNOWN == "SDL_PIXELFORMAT_UNKNOWN"

NoDesc == [name |-> "none"]

\* libavutil/pixdesc.c: flags of the descriptor, bits per pixel as summed by
\* av_get_bits_per_pixel, and step = bytes between two pixels of plane 0.
av_pix_fmt_desc_get(fmt) ==
    CASE fmt \in {"RGB24", "BGR24"} ->
           [name |-> fmt, rgb |-> TRUE, planar |-> FALSE, bpp |-> 24,
            step |-> 3]
      [] fmt \in {"ARGB", "RGBA", "ABGR", "BGRA"} ->
           [name |-> fmt, rgb |-> TRUE, planar |-> FALSE, bpp |-> 32,
            step |-> 4]
      [] fmt \in {"RGB565BE", "BGR565BE", "RGB565LE"} ->
           [name |-> fmt, rgb |-> TRUE, planar |-> FALSE, bpp |-> 16,
            step |-> 2]
      [] fmt \in {"RGB555BE", "BGR555BE"} ->
           [name |-> fmt, rgb |-> TRUE, planar |-> FALSE, bpp |-> 15,
            step |-> 2]
      [] fmt \in {"RGB444BE", "BGR444BE"} ->
           [name |-> fmt, rgb |-> TRUE, planar |-> FALSE, bpp |-> 12,
            step |-> 2]
      [] fmt = "RGB48BE" ->
           [name |-> fmt, rgb |-> TRUE, planar |-> FALSE, bpp |-> 48,
            step |-> 6]
      [] fmt = "0RGB" ->
           [name |-> fmt, rgb |-> TRUE, planar |-> FALSE, bpp |-> 24,
            step |-> 4]
      [] fmt = "GBRP" ->
           [name |-> fmt, rgb |-> TRUE, planar |-> TRUE, bpp |-> 24,
            step |-> 1]
      [] fmt = "YUV420P" ->
           [name |-> fmt, rgb |-> FALSE, planar |-> TRUE, bpp |-> 12,
            step |-> 1]
      [] fmt = "YUYV422" ->
           [name |-> fmt, rgb |-> FALSE, planar |-> FALSE, bpp |-> 16,
            step |-> 2]
      [] fmt = "GRAY8" ->
           [name |-> fmt, rgb |-> FALSE, planar |-> FALSE, bpp |-> 8,
            step |-> 1]
      [] fmt = "PAL8" ->
           [name |-> fmt, rgb |-> FALSE, planar |-> FALSE, bpp |-> 8,
            step |-> 1]
      [] OTHER -> NoDesc

to_sdl_pixel_format_gap(fmt) ==
    CASE fmt = "RGB24" -> "SDL_PIXELFORMAT_RGB24"
      [] fmt = "BGR24" -> "SDL_PIXELFORMAT_BGR24"
      [] fmt = "ARGB" -> "SDL_PIXELFORMAT_ARGB32"
      [] fmt = "RGBA" -> "SDL_PIXELFORMAT_RGBA32"
      [] fmt = "ABGR" -> "SDL_PIXELFORMAT_ABGR32"
      [] fmt = "RGB565BE" -> "SDL_PIXELFORMAT_RGB565"
      [] fmt = "RGB555BE" -> "SDL_PIXELFORMAT_RGB555"
      [] fmt = "BGR565BE" -> "SDL_PIXELFORMAT_BGR565"
      [] fmt = "BGR555BE" -> "SDL_PIXELFORMAT_BGR555"
      [] fmt = "RGB444BE" -> "SDL_PIXELFORMAT_RGB444"
      [] fmt = "BGR444BE" -> "SDL_PIXELFORMAT_BGR444"
      [] OTHER -> SDL_PIXELFORMAT_UNKNOWN

to_sdl_pixel_format_wide(fmt) ==
    CASE fmt = "RGB24" -> "SDL_PIXELFORMAT_RGBA32"
      [] fmt = "BGR24" -> "SDL_PIXELFORMAT_BGR24"
      [] fmt = "ARGB" -> "SDL_PIXELFORMAT_ARGB32"
      [] fmt = "RGBA" -> "SDL_PIXELFORMAT_RGBA32"
      [] fmt = "ABGR" -> "SDL_PIXELFORMAT_ABGR32"
      [] fmt = "BGRA" -> "SDL_PIXELFORMAT_BGRA32"
      [] fmt = "RGB565BE" -> "SDL_PIXELFORMAT_RGB565"
      [] fmt = "RGB555BE" -> "SDL_PIXELFORMAT_RGB555"
      [] fmt = "BGR565BE" -> "SDL_PIXELFORMAT_BGR565"
      [] fmt = "BGR555BE" -> "SDL_PIXELFORMAT_BGR555"
      [] fmt = "RGB444BE" -> "SDL_PIXELFORMAT_RGB444"
      [] fmt = "BGR444BE" -> "SDL_PIXELFORMAT_BGR444"
      [] OTHER -> SDL_PIXELFORMAT_UNKNOWN

to_sdl_pixel_format(fmt) ==
    CASE fmt = "RGB24" -> "SDL_PIXELFORMAT_RGB24"
      [] fmt = "BGR24" -> "SDL_PIXELFORMAT_BGR24"
      [] fmt = "ARGB" -> "SDL_PIXELFORMAT_ARGB32"
      [] fmt = "RGBA" -> "SDL_PIXELFORMAT_RGBA32"
      [] fmt = "ABGR" -> "SDL_PIXELFORMAT_ABGR32"
      [] fmt = "BGRA" -> "SDL_PIXELFORMAT_BGRA32"
      [] fmt = "RGB565BE" -> "SDL_PIXELFORMAT_RGB565"
      [] fmt = "RGB555BE" -> "SDL_PIXELFORMAT_RGB555"
      [] fmt = "BGR565BE" -> "SDL_PIXELFORMAT_BGR565"
      [] fmt = "BGR555BE" -> "SDL_PIXELFORMAT_BGR555"
      [] fmt = "RGB444BE" -> "SDL_PIXELFORMAT_RGB444"
      [] fmt = "BGR444BE" -> "SDL_PIXELFORMAT_BGR444"
      [] OTHER -> SDL_PIXELFORMAT_UNKNOWN

is_packed_rgb_any_layout(desc) == desc.rgb

\* bool is_packed_rgb = desc->flags & RGB && !(desc->flags & PLANAR)
is_packed_rgb(desc) == desc.rgb /\ ~desc.planar

\* SDL_BYTESPERPIXEL of the presentation layer's format tags
SDL_BYTESPERPIXEL(tag) ==
    CASE tag \in {"SDL_PIXELFORMAT_RGB24", "SDL_PIXELFORMAT_BGR24"} -> 3
      [] tag \in {"SDL_PIXELFORMAT_ARGB32", "SDL_PIXELFORMAT_RGBA32",
                  "SDL_PIXELFORMAT_ABGR32", "SDL_PIXELFORMAT_BGRA32"} -> 4
      [] tag \in {"SDL_PIXELFORMAT_RGB565", "SDL_PIXELFORMAT_RGB555",
                  "SDL_PIXELFORMAT_BGR565", "SDL_PIXELFORMAT_BGR555",
                  "SDL_PIXELFORMAT_RGB444", "SDL_PIXELFORMAT_BGR444"} -> 2
      [] OTHER -> 0

\* Row strides the framework reports for a decoded frame of format fmt and
\* width w: the bytes of one picture line, alone or followed by the
\* alignment padding.
LineSizes(fmt, w) ==
    IF av_pix_fmt_desc_get(fmt) = NoDesc
    THEN {w}
    ELSE {w * av_pix_fmt_desc_get(fmt).step + pad : pad \in {0, MaxPad}}

\* The pictures an icon file may hold
Images ==
    {[format |-> f, width |-> w, height |-> h] :
        f \in AVFormats, w \in 1..MaxW, h \in 1..MaxH}

NoFrame == [format |-> "NOFMT", width |-> 0, height |-> 0, linesize |-> 0]
NoSurface == [w |-> 0, h |-> 0, depth |-> 0, pitch |-> 0,
              format |-> SDL_PIXELFORMAT_UNKNOWN, pixels |-> NULL,
              userdata |-> NULL]

\* Status codes of avcodec_send_packet / avcodec_receive_frame (int)
StatusCodes == {-1, 0, 1}

VARIABLES
    pc,         \* position of the thread
    portable,   \* the build defines PORTABLE
    image,      \* the picture stored in the icon file: the pixel format,
                \* width and height its decoder produces
    ncalls,     \* calls of scrcpy_icon_load started so far
    cur,        \* id of the running call of scrcpy_icon_load (objects it
                \* allocates carry this id), NULL when none
    icon_path,  \* scrcpy_icon_load: char *icon_path
    ctx,        \* decode_image: AVFormatContext *ctx
    codec_ctx,  \* decode_image: AVCodecContext *codec_ctx
    frame,      \* decode_image / load_from_path: AVFrame *frame
    packet,     \* decode_image: AVPacket *packet
    result,     \* decode_image: AVFrame *result
    icon,       \* scrcpy_icon_load: SDL_Surface *icon
    mem,        \* the objects: state, number of releases, order of releases
    frames,     \* fields of the AVFrame objects
    surf,       \* fields of the SDL_Surface objects
    returned,   \* value returned by each call of scrcpy_icon_load
    ret_hist,   \* decode_image: the values assigned to int ret, in order
    calls,      \* framework / libc calls made by the running API call
    errs,       \* LOGE lines written by the running API call
    op          \* the API call that ran last: <<name, argument>>

vars == <<pc, portable, image, ncalls, cur, icon_path, ctx, codec_ctx,
          frame, packet,
          result, icon, mem, frames, surf, returned, ret_hist, calls,
          errs, op>>

locals == <<icon_path, ctx, codec_ctx, frame, packet, result, icon>>

\* ---- objects ------------------------------------------------------------
NoObjects == [k \in Kinds |-> "none"]
NoReleases == [k \in Kinds |-> 0]

InitMem == [res |-> [c \in CallIds |-> NoObjects],
            rel |-> [c \in CallIds |-> NoReleases],
            order |-> <<>>,
            bad |-> FALSE]

\* a successful allocation of the object of this kind of call p
NewObj(m, kind, p) == [m EXCEPT !.res[p][kind] = "alloc"]

SetObj(m, kind, p, st) == [m EXCEPT !.res[p][kind] = st]

\* The marks of released objects are kept while the API call that released
\* them is the last one made, and dropped when the next API call starts.
Forget(m) ==
    [m EXCEPT !.res = [c \in CallIds |-> [k \in Kinds |->
                         IF m.res[c][k] = "freed" THEN "none"
                         ELSE m.res[c][k]]],
              !.rel = [c \in CallIds |-> NoReleases],
              !.order = <<>>]

\* release of the object p points to; a release of NULL does nothing; the
\* release of an object that is not allocated is recorded in bad
FreeObj(m, kind, p) ==
    IF p = NULL THEN m
    ELSE [m EXCEPT !.res[p][kind] = "freed",
                   !.rel[p][kind] = @ + 1,
                   !.order = Append(@, <<kind, p>>),
                   !.bad = @ \/ (m.res[p][kind] \notin Live)]

\* ---- the framework's calls on the objects -------------------------------
\* Each yields the objects after the call and, for the calls that take the
\* address of the pointer, the pointer after the call.

\* avformat_open_input(&ctx, ...): on failure the user-supplied context is
\* freed and the pointer is set to NULL
avformat_open_input(m, p, ok) ==
    IF ok THEN [mem |-> SetObj(m, "ctx", p, "open"), ptr |-> p]
    ELSE [mem |-> FreeObj(m, "ctx", p), ptr |-> NULL]

avformat_close_input_keep(m, p) == [mem |-> FreeObj(m, "ctx", p), ptr |-> p]

\* avformat_close_input(&ctx): closes and frees the context, *ps = NULL
avformat_close_input(m, p) == [mem |-> FreeObj(m, "ctx", p), ptr |-> NULL]

\* avformat_free_context(ctx): frees the context, nothing on NULL
avformat_free_context(m, p) == FreeObj(m, "ctx", p)

\* avcodec_open2(codec_ctx, ...)
avcodec_open2(m, p, ok) == IF ok THEN SetObj(m, "codec_ctx", p, "open") ELSE m

\* avcodec_close(codec_ctx): the context is closed, not freed
avcodec_close(m, p) ==
    IF p # NULL /\ m.res[p]["codec_ctx"] = "open"
    THEN SetObj(m, "codec_ctx", p, "alloc")
    ELSE m

\* avcodec_free_context(&codec_ctx)
avcodec_free_context(m, p) ==
    [mem |-> FreeObj(m, "codec_ctx", p), ptr |-> NULL]

\* av_packet_free(&packet)
av_packet_free(m, p) == [mem |-> FreeObj(m, "packet", p), ptr |-> NULL]

\* av_frame_free(&frame)
av_frame_free(m, p) == [mem |-> FreeObj(m, "frame", p), ptr |-> NULL]

\* SDL_FreeSurface(icon)
SDL_FreeSurface(m, p) == FreeObj(m, "surface", p)

free_missing(m, p) == m

\* free(icon_path)
free(m, p) == FreeObj(m, "path", p)

\* ---- control flow of decode_image ---------------------------------------
FallThrough_swapped(label) ==
    CASE label = "close_codec" -> "close_input"
      [] label = "close_input" -> "free_codec_ctx"
      [] label = "free_codec_ctx" -> "free_ctx"
      [] label = "free_ctx" -> "ret_decode"

\* the cleanup labels fall through: close_codec, free_codec_ctx, close_input,
\* free_ctx, return result
FallThrough(label) ==
    CASE label = "close_codec" -> "free_codec_ctx"
      [] label = "free_codec_ctx" -> "close_input"
      [] label = "close_input" -> "free_ctx"
      [] label = "free_ctx" -> "ret_decode"

open_input_failed_ignored == "find_stream_info"

\* avformat_open_input failed: LOGE(...); goto free_ctx;
open_input_failed == "free_ctx"

open_input_msg_bare == "Could not open image codec"

\* LOGE("Could not open image codec: %s", path);
open_input_msg == "Could not open image codec: %s"

stream_info_failed_ignored == "find_best_stream"

\* avformat_find_stream_info failed: LOGE(...); goto close_input;
stream_info_failed == "close_input"

open2_failed_close == "close_codec"

\* avcodec_open2 failed: LOGE(...); goto free_codec_ctx;
open2_failed == "free_codec_ctx"

after_receive_drain == "receive_frame"

\* avcodec_receive_frame returned 0: control goes on to line 145
after_receive == "packet_free"

after_packet_free_return == "ret_decode"

\* result = frame; falls into the label close_codec
after_packet_free == "close_codec"

decode_fail_leak(m, pk, fr) == [mem |-> m, packet |-> pk, frame |-> fr]

\* the failure branches of the packet read, submit and receive steps:
\*   av_packet_free(&packet); av_frame_free(&frame); goto close_codec;
decode_fail(m, pk, fr) ==
    LET a == av_packet_free(m, pk)
        b == av_frame_free(a.mem, fr)
    IN [mem |-> b.mem, packet |-> a.ptr, frame |-> b.ptr]

\* if ((ret = avcodec_send_packet(codec_ctx, packet)) < 0)
send_packet_failed(status) == status < 0

receive_frame_failed_negative(status) == status < 0

\* if ((ret = avcodec_receive_frame(codec_ctx, frame)) != 0)
receive_frame_failed(status) == status # 0

\* ---- load_from_path -----------------------------------------------------
make_surface_unattached(fr, f, desc, format) ==
    [w |-> f.width, h |-> f.height, depth |-> desc.bpp, pitch |-> f.linesize,
     format |-> format, pixels |-> fr, userdata |-> NULL]

\* SDL_CreateRGBSurfaceWithFormatFrom(frame->data[0], frame->width,
\*     frame->height, bits_per_pixel, frame->linesize[0], format);
\* surface->userdata = frame;
make_surface(fr, f, desc, format) ==
    [w |-> f.width, h |-> f.height, depth |-> desc.bpp, pitch |-> f.linesize,
     format |-> format, pixels |-> fr, userdata |-> fr]

error_leak(m, fr) == [mem |-> m, ptr |-> fr]

\* error: av_frame_free(&frame); return NULL;
error(m, fr) == av_frame_free(m, fr)

\* ---- scrcpy_icon_destroy ------------------------------------------------
attached_frame_last(sf) == ncalls

\* AVFrame *frame = icon->userdata;
attached_frame(sf) == surf[sf].userdata

destroy_surface_first(m, sf, fr) ==
    av_frame_free(SDL_FreeSurface(m, sf), fr).mem

\* av_frame_free(&frame); SDL_FreeSurface(icon);
destroy(m, sf, fr) == SDL_FreeSurface(av_frame_free(m, fr).mem, sf)

\* ---- initial state ------------------------------------------------------
Init ==
    /\ pc = "idle"
    /\ portable \in BOOLEAN
    /\ image \in Images
    /\ ncalls = 0
    /\ cur = NULL
    /\ icon_path = NULL /\ ctx = NULL /\ codec_ctx = NULL
    /\ frame = NULL /\ packet = NULL /\ result = NULL /\ icon = NULL
    /\ mem = InitMem
    /\ frames = [c \in CallIds |-> NoFrame]
    /\ surf = [c \in CallIds |-> NoSurface]
    /\ returned = [c \in CallIds |-> NotReturned]
    /\ ret_hist = <<>>
    /\ calls = <<>>
    /\ errs = <<>>
    /\ op = <<"none", NULL>>

Call(name) == calls' = Append(calls, name)
Log(msg) == errs' = Append(errs, msg)

\* return of scrcpy_icon_load to its caller
Return(val) ==
    /\ returned' = [returned EXCEPT ![cur] = val]
    /\ pc' = "idle"
    /\ cur' = NULL
    /\ op' = <<"load", cur>>
    /\ icon_path' = NULL /\ ctx' = NULL /\ codec_ctx' = NULL
    /\ frame' = NULL /\ packet' = NULL /\ result' = NULL /\ icon' = NULL

\* ---- scrcpy_icon_load ---------------------------------------------------
\* the caller calls scrcpy_icon_load()
StartLoad ==
    /\ pc = "idle" /\ ncalls < MaxCalls
    /\ ncalls' = ncalls + 1
    /\ cur' = ncalls + 1
    /\ pc' = "get_icon_path"
    /\ calls' = <<>> /\ errs' = <<>> /\ ret_hist' = <<>>
    /\ mem' = Forget(mem)
    /\ op' = <<"load", ncalls + 1>>
    /\ UNCHANGED <<portable, image, locals, frames, surf, returned>>

\* char *icon_path = get_icon_path(); if (!icon_path) return NULL;
\* icon_path_env: getenv("SCRCPY_ICON_PATH") found the variable set
GetIconPath ==
    /\ pc = "get_icon_path"
    /\ \E icon_path_env \in BOOLEAN, ok \in BOOLEAN :
         LET fn == IF icon_path_env \/ ~portable
                   THEN "strdup" ELSE "get_local_file_path"
             msg == IF icon_path_env \/ ~portable
                    THEN "Could not allocate memory"
                    ELSE "Could not get icon path"
         IN /\ calls' = calls \o <<"getenv", fn>>
            /\ IF ok
               THEN /\ mem' = NewObj(mem, "path", cur)
                    /\ icon_path' = cur
                    /\ pc' = "alloc_ctx"
                    /\ UNCHANGED <<errs, returned, cur, op, ctx, codec_ctx,
                                   frame, packet, result, icon>>
               ELSE /\ Log(msg)
                    /\ Return(NULL)
                    /\ UNCHANGED mem
    /\ UNCHANGED <<portable, image, ncalls, frames, surf, ret_hist>>

\* ---- decode_image -------------------------------------------------------
\* what no step of decode_image or load_from_path changes
InsideRet == UNCHANGED <<portable, image, ncalls, cur, returned, op,
                         icon_path, icon>>
Inside == InsideRet /\ UNCHANGED ret_hist

\* AVFormatContext *ctx = avformat_alloc_context(); if (!ctx) return NULL;
AllocCtx ==
    /\ pc = "alloc_ctx"
    /\ Call("avformat_alloc_context")
    /\ \E ok \in BOOLEAN :
         IF ok
         THEN /\ mem' = NewObj(mem, "ctx", cur)
              /\ ctx' = cur
              /\ pc' = "open_input"
              /\ UNCHANGED errs
         ELSE /\ Log("Could not allocate image decoder context")
              /\ pc' = "ret_decode"
              /\ UNCHANGED <<mem, ctx>>
    /\ Inside /\ UNCHANGED <<codec_ctx, frame, packet, result, frames, surf>>

\* if (avformat_open_input(&ctx, path, NULL, NULL) < 0) goto free_ctx;
OpenInput ==
    /\ pc = "open_input"
    /\ Call("avformat_open_input")
    /\ \E ok \in BOOLEAN :
         LET r == avformat_open_input(mem, ctx, ok)
         IN /\ mem' = r.mem
            /\ ctx' = r.ptr
            /\ IF ok
               THEN pc' = "find_stream_info" /\ UNCHANGED errs
               ELSE /\ pc' = open_input_failed
                    /\ Log(open_input_msg)
    /\ Inside /\ UNCHANGED <<codec_ctx, frame, packet, result, frames, surf>>

\* if (avformat_find_stream_info(ctx, NULL) < 0) goto close_input;
FindStreamInfo ==
    /\ pc = "find_stream_info"
    /\ Call("avformat_find_stream_info")
    /\ \E ok \in BOOLEAN :
         IF ok
         THEN pc' = "find_best_stream" /\ UNCHANGED errs
         ELSE /\ pc' = stream_info_failed
              /\ Log("Could not find image stream info")
    /\ Inside
    /\ UNCHANGED <<mem, ctx, codec_ctx, frame, packet, result, frames, surf>>

\* int stream = av_find_best_stream(...); if (stream < 0) goto close_input;
FindBestStream ==
    /\ pc = "find_best_stream"
    /\ Call("av_find_best_stream")
    /\ \E ok \in BOOLEAN :
         IF ok
         THEN pc' = "find_decoder" /\ UNCHANGED errs
         ELSE pc' = "close_input" /\ Log("Could not find best image stream")
    /\ Inside
    /\ UNCHANGED <<mem, ctx, codec_ctx, frame, packet, result, frames, surf>>

\* AVCodec *codec = avcodec_find_decoder(params->codec_id);
\* if (!codec) goto close_input;
FindDecoder ==
    /\ pc = "find_decoder"
    /\ Call("avcodec_find_decoder")
    /\ \E ok \in BOOLEAN :
         IF ok
         THEN pc' = "alloc_codec_ctx" /\ UNCHANGED errs
         ELSE pc' = "close_input" /\ Log("Could not find image decoder")
    /\ Inside
    /\ UNCHANGED <<mem, ctx, codec_ctx, frame, packet, result, frames, surf>>

\* AVCodecContext *codec_ctx = avcodec_alloc_context3(codec);
\* if (!codec_ctx) goto close_input;
AllocCodecCtx ==
    /\ pc = "alloc_codec_ctx"
    /\ Call("avcodec_alloc_context3")
    /\ \E ok \in BOOLEAN :
         IF ok
         THEN /\ mem' = NewObj(mem, "codec_ctx", cur)
              /\ codec_ctx' = cur
              /\ pc' = "parameters_to_context"
              /\ UNCHANGED errs
         ELSE /\ Log("Could not allocate codec context")
              /\ pc' = "close_input"
              /\ UNCHANGED <<mem, codec_ctx>>
    /\ Inside /\ UNCHANGED <<ctx, frame, packet, result, frames, surf>>

\* if (avcodec_parameters_to_context(codec_ctx, params) < 0)
\*     goto free_codec_ctx;
ParametersToContext ==
    /\ pc = "parameters_to_context"
    /\ Call("avcodec_parameters_to_context")
    /\ \E ok \in BOOLEAN :
         IF ok
         THEN pc' = "open2" /\ UNCHANGED errs
         ELSE pc' = "free_codec_ctx" /\ Log("Could not fill codec context")
    /\ Inside
    /\ UNCHANGED <<mem, ctx, codec_ctx, frame, packet, result, frames, surf>>

\* if (avcodec_open2(codec_ctx, codec, NULL) < 0) goto free_codec_ctx;
Open2 ==
    /\ pc = "open2"
    /\ Call("avcodec_open2")
    /\ \E ok \in BOOLEAN :
         /\ mem' = avcodec_open2(mem, codec_ctx, ok)
         /\ IF ok
            THEN pc' = "frame_alloc" /\ UNCHANGED errs
            ELSE pc' = open2_failed /\ Log("Could not open image codec")
    /\ Inside
    /\ UNCHANGED <<ctx, codec_ctx, frame, packet, result, frames, surf>>

\* AVFrame *frame = av_frame_alloc(); if (!frame) goto close_codec;
FrameAlloc ==
    /\ pc = "frame_alloc"
    /\ Call("av_frame_alloc")
    /\ \E ok \in BOOLEAN :
         IF ok
         THEN /\ mem' = NewObj(mem, "frame", cur)
              /\ frame' = cur
              /\ pc' = "packet_alloc"
              /\ UNCHANGED errs
         ELSE /\ Log("Could not allocate frame")
              /\ pc' = "close_codec"
              /\ UNCHANGED <<mem, frame>>
    /\ Inside /\ UNCHANGED <<ctx, codec_ctx, packet, result, frames, surf>>

\* AVPacket *packet = av_packet_alloc();
\* if (!packet) { av_frame_free(&frame); goto close_codec; }
PacketAlloc ==
    /\ pc = "packet_alloc"
    /\ \E ok \in BOOLEAN :
         IF ok
         THEN /\ Call("av_packet_alloc")
              /\ mem' = NewObj(mem, "packet", cur)
              /\ packet' = cur
              /\ pc' = "read_frame"
              /\ UNCHANGED <<errs, frame>>
         ELSE /\ calls' = calls \o <<"av_packet_alloc", "av_frame_free">>
              /\ Log("Could not allocate packet")
              /\ mem' = av_frame_free(mem, frame).mem
              /\ frame' = av_frame_free(mem, frame).ptr
              /\ pc' = "close_codec"
              /\ UNCHANGED packet
    /\ Inside /\ UNCHANGED <<ctx, codec_ctx, result, frames, surf>>

\* the failure branch shared by the three steps below
DecodeFail(fn, msg) ==
    LET r == decode_fail(mem, packet, frame)
    IN /\ calls' = calls \o <<fn, "av_packet_free", "av_frame_free">>
       /\ Log(msg)
       /\ mem' = r.mem
       /\ packet' = r.packet
       /\ frame' = r.frame
       /\ pc' = "close_codec"
       /\ UNCHANGED frames

\* if (av_read_frame(ctx, packet) < 0) { ...; goto close_codec; }
ReadFrame ==
    /\ pc = "read_frame"
    /\ \E ok \in BOOLEAN :
         IF ok
         THEN /\ Call("av_read_frame")
              /\ pc' = "send_packet"
              /\ UNCHANGED <<errs, mem, packet, frame, frames>>
         ELSE DecodeFail("av_read_frame", "Could not read frame")
    /\ Inside /\ UNCHANGED <<ctx, codec_ctx, result, surf>>

\* if ((ret = avcodec_send_packet(codec_ctx, packet)) < 0) { ... }
SendPacket ==
    /\ pc = "send_packet"
    /\ \E status \in StatusCodes :
         /\ ret_hist' = Append(ret_hist, status)
         /\ IF send_packet_failed(status)
            THEN DecodeFail("avcodec_send_packet",
                            "Could not send icon packet")
            ELSE /\ Call("avcodec_send_packet")
                 /\ pc' = "receive_frame"
                 /\ UNCHANGED <<errs, mem, packet, frame, frames>>
    /\ InsideRet /\ UNCHANGED <<ctx, codec_ctx, result, surf>>

\* if ((ret = avcodec_receive_frame(codec_ctx, frame)) != 0) { ... }
\* on success the framework has filled the frame's fields
ReceiveFrame ==
    /\ pc = "receive_frame"
    /\ \E status \in StatusCodes :
         /\ ret_hist' = Append(ret_hist, status)
         /\ IF receive_frame_failed(status)
            THEN DecodeFail("avcodec_receive_frame",
                            "Could not receive icon frame")
            ELSE /\ Call("avcodec_receive_frame")
                 /\ \E l \in LineSizes(image.format, image.width) :
                      frames' = [frames EXCEPT ![frame] =
                                   [format |-> image.format,
                                    width |-> image.width,
                                    height |-> image.height,
                                    linesize |-> l]]
                 /\ pc' = after_receive
                 /\ UNCHANGED <<errs, mem, packet, frame>>
    /\ InsideRet /\ UNCHANGED <<ctx, codec_ctx, result, surf>>

\* av_packet_free(&packet); result = frame;
PacketFree ==
    /\ pc = "packet_free"
    /\ Call("av_packet_free")
    /\ mem' = av_packet_free(mem, packet).mem
    /\ packet' = av_packet_free(mem, packet).ptr
    /\ result' = frame
    /\ pc' = after_packet_free
    /\ Inside /\ UNCHANGED <<ctx, codec_ctx, frame, frames, surf, errs>>

\* close_codec: avcodec_close(codec_ctx);
CloseCodec ==
    /\ pc = "close_codec"
    /\ Call("avcodec_close")
    /\ mem' = avcodec_close(mem, codec_ctx)
    /\ pc' = FallThrough("close_codec")
    /\ Inside
    /\ UNCHANGED <<ctx, codec_ctx, frame, packet, result, frames, surf, errs>>

\* free_codec_ctx: avcodec_free_context(&codec_ctx);
FreeCodecCtx ==
    /\ pc = "free_codec_ctx"
    /\ Call("avcodec_free_context")
    /\ mem' = avcodec_free_context(mem, codec_ctx).mem
    /\ codec_ctx' = avcodec_free_context(mem, codec_ctx).ptr
    /\ pc' = FallThrough("free_codec_ctx")
    /\ Inside /\ UNCHANGED <<ctx, frame, packet, result, frames, surf, errs>>

\* close_input: avformat_close_input(&ctx);
CloseInput ==
    /\ pc = "close_input"
    /\ Call("avformat_close_input")
    /\ mem' = avformat_close_input(mem, ctx).mem
    /\ ctx' = avformat_close_input(mem, ctx).ptr
    /\ pc' = FallThrough("close_input")
    /\ Inside
    /\ UNCHANGED <<codec_ctx, frame, packet, result, frames, surf, errs>>

\* free_ctx: avformat_free_context(ctx);
FreeCtx ==
    /\ pc = "free_ctx"
    /\ Call("avformat_free_context")
    /\ mem' = avformat_free_context(mem, ctx)
    /\ pc' = FallThrough("free_ctx")
    /\ Inside
    /\ UNCHANGED <<ctx, codec_ctx, frame, packet, result, frames, surf, errs>>

\* return result;  and in load_from_path:
\* AVFrame *frame = decode_image(path); if (!frame) return NULL;
RetDecode ==
    /\ pc = "ret_decode"
    /\ frame' = result
    /\ pc' = IF result = NULL THEN "free_path" ELSE "desc_get"
    /\ UNCHANGED <<portable, image, ncalls, cur, returned, op, icon_path,
                   icon, ctx, codec_ctx, packet, result, mem, frames, surf,
                   calls, errs, ret_hist>>

\* ---- load_from_path -----------------------------------------------------
InLoad == UNCHANGED <<portable, image, ncalls, cur, returned, op,
                      ret_hist, icon_path, ctx,
                      codec_ctx, packet, result>>

\* const AVPixFmtDescriptor *desc = av_pix_fmt_desc_get(frame->format);
\* if (!desc) goto error;
DescGet ==
    /\ pc = "desc_get"
    /\ Call("av_pix_fmt_desc_get")
    /\ IF av_pix_fmt_desc_get(frames[frame].format) = NoDesc
       THEN pc' = "error" /\ Log("Could not get icon format descriptor")
       ELSE pc' = "check_packed_rgb" /\ UNCHANGED errs
    /\ InLoad /\ UNCHANGED <<frame, icon, mem, frames, surf>>

\* if (!is_packed_rgb) goto error;
CheckPackedRgb ==
    /\ pc = "check_packed_rgb"
    /\ IF is_packed_rgb(av_pix_fmt_desc_get(frames[frame].format))
       THEN pc' = "to_sdl_pixel_format" /\ UNCHANGED errs
       ELSE pc' = "error" /\ Log("Could not load non-RGB icon")
    /\ InLoad /\ UNCHANGED <<frame, icon, mem, frames, surf, calls>>

\* SDL_PixelFormatEnum format = to_sdl_pixel_format(frame->format);
\* if (format == SDL_PIXELFORMAT_UNKNOWN) goto error;
MapFormat ==
    /\ pc = "to_sdl_pixel_format"
    /\ Call("to_sdl_pixel_format")
    /\ IF to_sdl_pixel_format(frames[frame].format) = SDL_PIXELFORMAT_UNKNOWN
       THEN pc' = "error" /\ Log("Unsupported icon pixel format")
       ELSE pc' = "create_surface" /\ UNCHANGED errs
    /\ InLoad /\ UNCHANGED <<frame, icon, mem, frames, surf>>

\* int bits_per_pixel = av_get_bits_per_pixel(desc);
\* SDL_Surface *surface = SDL_CreateRGBSurfaceWithFormatFrom(...);
\* if (!surface) goto error;
\* surface->userdata = frame; return surface;
CreateSurface ==
    /\ pc = "create_surface"
    /\ calls' = calls \o <<"av_get_bits_per_pixel",
                           "SDL_CreateRGBSurfaceWithFormatFrom">>
    /\ \E ok \in BOOLEAN :
         IF ok
         THEN /\ mem' = NewObj(mem, "surface", cur)
              /\ surf' = [surf EXCEPT ![cur] =
                   make_surface(frame, frames[frame],
                                av_pix_fmt_desc_get(frames[frame].format),
                                to_sdl_pixel_format(frames[frame].format))]
              /\ icon' = cur
              /\ pc' = "free_path"
              /\ UNCHANGED errs
         ELSE /\ Log("Could not create icon surface")
              /\ pc' = "error"
              /\ UNCHANGED <<mem, surf, icon>>
    /\ InLoad /\ UNCHANGED <<frame, frames>>

\* error: av_frame_free(&frame); return NULL;
Error ==
    /\ pc = "error"
    /\ Call("av_frame_free")
    /\ mem' = error(mem, frame).mem
    /\ frame' = error(mem, frame).ptr
    /\ frames' = IF mem'.res[frame]["frame"] = "freed"
                 THEN [frames EXCEPT ![frame] = NoFrame] ELSE frames
    /\ icon' = NULL
    /\ pc' = "free_path"
    /\ InLoad /\ UNCHANGED <<surf, errs>>

\* SDL_Surface *icon = load_from_path(icon_path);
\* free(icon_path); return icon;
FreePath ==
    /\ pc = "free_path"
    /\ Call("free")
    /\ mem' = free(mem, icon_path)
    /\ Return(icon)
    /\ UNCHANGED <<portable, image, ncalls, frames, surf, errs,
                   ret_hist>>

\* ---- scrcpy_icon_destroy ------------------------------------------------
\* The caller passes a Surface that scrcpy_icon_load returned and that it has
\* not destroyed yet.
\* AVFrame *frame = icon->userdata; assert(frame);
\* av_frame_free(&frame); SDL_FreeSurface(icon);
Destroy(s) ==
    /\ pc = "idle"
    /\ returned[s] = s
    /\ mem.res[s]["surface"] \in Live
    /\ op' = <<"destroy", s>>
    /\ errs' = <<>> /\ ret_hist' = <<>>
    /\ LET fr == attached_frame(s)
       IN IF fr = NULL
          THEN /\ pc' = "abort"
               /\ calls' = <<"assert">>
               /\ UNCHANGED <<mem, frames, surf>>
          ELSE /\ pc' = "idle"
               /\ calls' = <<"assert", "av_frame_free", "SDL_FreeSurface">>
               /\ mem' = destroy(Forget(mem), s, fr)
               /\ frames' = [frames EXCEPT ![fr] = NoFrame]
               /\ surf' = [surf EXCEPT ![s] = NoSurface]
    /\ UNCHANGED <<portable, image, ncalls, cur, locals, returned>>

Next ==
    \/ StartLoad
    \/ GetIconPath
    \/ AllocCtx
    \/ OpenInput
    \/ FindStreamInfo
    \/ FindBestStream
    \/ FindDecoder
    \/ AllocCodecCtx
    \/ ParametersToContext
    \/ Open2
    \/ FrameAlloc
    \/ PacketAlloc
    \/ ReadFrame
    \/ SendPacket
    \/ ReceiveFrame
    \/ PacketFree
    \/ CloseCodec
    \/ FreeCodecCtx
    \/ CloseInput
    \/ FreeCtx
    \/ RetDecode
    \/ DescGet
    \/ CheckPackedRgb
    \/ MapFormat
    \/ CreateSurface
    \/ Error
    \/ FreePath
    \/ \E s \in CallIds : Destroy(s)

Spec == Init /\ [][Next]_vars

TypeOK ==
    /\ ncalls \in 0..MaxCalls
    /\ cur \in Ptr
    /\ \A c \in CallIds : returned[c] \in {NotReturned, NULL, c}

\* ======================================================================
\* Properties
\* ======================================================================

\* a call of scrcpy_icon_load has just returned; op[2] is its id
JustLoaded == pc = "idle" /\ op[1] = "load"

\* the kinds of object of call k that are allocated
LiveKinds(k) == {kind \in Kinds : mem.res[k][kind] \in Live}

\* position of the release of the object of this kind of call k among the
\* releases of the running API call, 0 when it was not released
Pos(kind, k) ==
    IF \E i \in DOMAIN mem.order : mem.order[i] = <<kind, k>>
    THEN CHOOSE i \in DOMAIN mem.order : mem.order[i] = <<kind, k>>
    ELSE 0

Before(kind1, kind2, k) ==
    (Pos(kind1, k) # 0 /\ Pos(kind2, k) # 0) => Pos(kind1, k) < Pos(kind2, k)

Called(fn) == \E i \in DOMAIN calls : calls[i] = fn
Logged(msg) == \E i \in DOMAIN errs : errs[i] = msg

\* the SurfaceAdapter stage of the call was entered
AdapterEntered == Called("av_pix_fmt_desc_get")

\* C1: every call of load ends either with a Surface returned, or with
\* absent returned and none of the objects acquired during the call (path
\* string, container context, decoder context, packet, frame, surface) still
\* allocated, whichever step failed.
C1_SurfaceOrNoLeak ==
    JustLoaded =>
        LET k == op[2]
        IN \/ returned[k] = k /\ mem.res[k]["surface"] \in Live
           \/ returned[k] = NULL /\ LiveKinds(k) = {}

\* a call that failed in the receive step, after six acquisitions
C1_Witness ==
    /\ JustLoaded
    /\ returned[op[2]] = NULL
    /\ Logged("Could not receive icon frame")
    /\ \A kind \in Kinds \ {"surface"} : mem.rel[op[2]][kind] = 1

\* C2 as stated: on every failure of load the frame and the packet are
\* released before the decoder context and the decoder context before the
\* container handle.
C2_Original ==
    (JustLoaded /\ returned[op[2]] = NULL) =>
        LET k == op[2]
        IN /\ Before("frame", "codec_ctx", k)
           /\ Before("packet", "codec_ctx", k)
           /\ Before("codec_ctx", "ctx", k)

\* C2 amended: on every failure of load the packet is released before the
\* decoder context and the decoder context before the container handle; the
\* frame is released before the decoder context when the failure is inside
\* decode_image, and after the decoder context and the container handle when
\* the failure is in the SurfaceAdapter stage.
C2_ReleaseOrder ==
    (JustLoaded /\ returned[op[2]] = NULL) =>
        LET k == op[2]
        IN /\ Before("packet", "codec_ctx", k)
           /\ Before("codec_ctx", "ctx", k)
           /\ Pos("codec_ctx", k) # 0 => Pos("ctx", k) # 0
           /\ IF AdapterEntered
              THEN /\ Pos("codec_ctx", k) # 0 /\ Pos("ctx", k) # 0
                   /\ Pos("ctx", k) < Pos("frame", k)
              ELSE Before("frame", "codec_ctx", k)

\* a failure in the SurfaceAdapter stage: the frame goes last but the path
C2_Witness ==
    /\ JustLoaded
    /\ returned[op[2]] = NULL
    /\ Logged("Could not create icon surface")
    /\ mem.order = << <<"packet", op[2]>>, <<"codec_ctx", op[2]>>,
                      <<"ctx", op[2]>>, <<"frame", op[2]>>,
                      <<"path", op[2]>> >>

\* C3: on every path through load no object is released more than once and
\* no release is applied to an object that was never acquired or is already
\* released.
C3_NoDoubleRelease ==
    op[1] = "load" =>
        /\ ~mem.bad
        /\ \A k \in CallIds, kind \in Kinds : mem.rel[k][kind] <= 1

\* the fall-through cleanup ran: close and free of both contexts were called
C3_Witness ==
    /\ JustLoaded
    /\ Called("avcodec_close") /\ Called("avcodec_free_context")
    /\ Called("avformat_close_input") /\ Called("avformat_free_context")
    /\ mem.rel[op[2]]["ctx"] = 1 /\ mem.rel[op[2]]["codec_ctx"] = 1

\* the tags of the fixed mapping table
TableTags ==
    {"SDL_PIXELFORMAT_RGB24", "SDL_PIXELFORMAT_BGR24",
     "SDL_PIXELFORMAT_ARGB32", "SDL_PIXELFORMAT_RGBA32",
     "SDL_PIXELFORMAT_ABGR32", "SDL_PIXELFORMAT_BGRA32",
     "SDL_PIXELFORMAT_RGB565", "SDL_PIXELFORMAT_RGB555",
     "SDL_PIXELFORMAT_BGR565", "SDL_PIXELFORMAT_BGR555",
     "SDL_PIXELFORMAT_RGB444", "SDL_PIXELFORMAT_BGR444"}

\* the failures the pipeline decides itself, on the frame's format
OwnRejections ==
    {"Could not load non-RGB icon", "Unsupported icon pixel format"}

\* no call of the framework, of SDL or of libc failed in the running call
NoStepFailed == \A i \in DOMAIN errs : errs[i] \in OwnRejections

ImagePackedRGB ==
    /\ av_pix_fmt_desc_get(image.format) # NoDesc
    /\ av_pix_fmt_desc_get(image.format).rgb
    /\ ~av_pix_fmt_desc_get(image.format).planar

ReturnedSurfaceOfImage(k) ==
    /\ returned[k] = k
    /\ surf[k].w = image.width
    /\ surf[k].h = image.height
    /\ surf[k].format \in TableTags

\* C4 as stated: for any image of packed-RGB format, all steps succeeding,
\* load returns a Surface of the image's width and height with a tag of the
\* mapping table.
C4_Original ==
    (JustLoaded /\ ImagePackedRGB /\ NoStepFailed) =>
        ReturnedSurfaceOfImage(op[2])

\* C4 amended: for any image whose packed-RGB format is one of the twelve
\* formats of the mapping table, all steps succeeding, load returns a Surface
\* of the image's width and height with a tag of the mapping table; for a
\* packed-RGB format outside the table it returns absent.
C4_TableFormatLoads ==
    (JustLoaded /\ ImagePackedRGB /\ NoStepFailed) =>
        IF image.format \in TableAVFormats
        THEN ReturnedSurfaceOfImage(op[2])
        ELSE returned[op[2]] = NULL

C4_Witness ==
    /\ JustLoaded
    /\ image = [format |-> "BGRA", width |-> 2, height |-> 1]
    /\ returned[op[2]] = op[2]
    /\ surf[op[2]].w = 2 /\ surf[op[2]].h = 1
    /\ surf[op[2]].format = "SDL_PIXELFORMAT_BGRA32"

\* C5: for an image whose format is planar or not RGB, load returns absent,
\* no Surface is ever created, and at the return the frame, the packet, the
\* decoder context, the container context and the path are released.
C5_NonRGBRejected ==
    image.format \in PlanarRGB \cup NonRGB =>
        /\ \A k \in CallIds : mem.res[k]["surface"] = "none"
        /\ ~Called("SDL_CreateRGBSurfaceWithFormatFrom")
        /\ JustLoaded =>
              /\ returned[op[2]] = NULL
              /\ LiveKinds(op[2]) = {}
              /\ AdapterEntered =>
                    \A kind \in Kinds \ {"surface"} :
                        mem.res[op[2]][kind] = "freed"

C5_Witness ==
    /\ JustLoaded
    /\ image.format = "YUV420P"
    /\ errs = <<"Could not load non-RGB icon">>
    /\ returned[op[2]] = NULL
    /\ mem.rel[op[2]]["frame"] = 1

\* C6: when the container cannot be opened, load returns absent and the
\* only framework calls of the call are the allocation of the container
\* context, the open and the release of that context: no stream probing, no
\* decoder, frame, packet or surface.
C6_OpenFailureTouchesNothingElse ==
    (JustLoaded /\ Logged("Could not open image codec: %s")) =>
        LET k == op[2]
        IN /\ returned[k] = NULL
           /\ SubSeq(calls, 3, Len(calls)) =
                 <<"avformat_alloc_context", "avformat_open_input",
                   "avformat_free_context", "free">>
           /\ \A kind \in {"codec_ctx", "packet", "frame", "surface"} :
                 mem.res[k][kind] = "none"
           /\ mem.rel[k]["ctx"] = 1
           /\ LiveKinds(k) = {}

C6_Witness ==
    /\ JustLoaded
    /\ errs = <<"Could not open image codec: %s">>
    /\ returned[op[2]] = NULL
    /\ mem.res[op[2]]["ctx"] = "freed"

\* a call of scrcpy_icon_destroy(s) has just returned
JustDestroyed(s) == pc = "idle" /\ op = <<"destroy", s>>

\* C7: one call of destroy on a Surface returned by load releases the
\* attached frame once and then the Surface once, the frame first, and
\* afterwards neither is allocated.
C7_DestroyFrameThenSurface ==
    \A s \in CallIds :
        JustDestroyed(s) =>
            /\ mem.order = << <<"frame", s>>, <<"surface", s>> >>
            /\ mem.rel[s]["frame"] = 1 /\ mem.rel[s]["surface"] = 1
            /\ mem.res[s]["frame"] = "freed"
            /\ mem.res[s]["surface"] = "freed"
            /\ ~mem.bad

C7_Witness ==
    /\ JustDestroyed(1)
    /\ returned[1] = 1
    /\ mem.res[1]["frame"] = "freed" /\ mem.res[1]["surface"] = "freed"

\* the Surfaces the caller holds
Held == {s \in CallIds : returned[s] = s /\ mem.res[s]["surface"] \in Live}

\* C8: with two Surfaces from two successful calls of load, destroying one
\* leaves the other Surface and its frame allocated and unchanged, in either
\* order of the two calls of destroy; the two share no object.
C8_DestroyIndependent ==
    /\ [](\A s, t \in Held :
            s # t => /\ surf[s].userdata # surf[t].userdata
                     /\ surf[s].pixels # surf[t].pixels
                     /\ mem.res[surf[s].userdata]["frame"] \in Live)
    /\ [][\A s \in CallIds :
            Destroy(s) =>
                \A t \in Held \ {s} :
                    /\ surf'[t] = surf[t]
                    /\ frames'[surf[t].userdata] = frames[surf[t].userdata]
                    /\ mem'.res[t]["surface"] \in Live
                    /\ mem'.res[surf[t].userdata]["frame"] \in Live
                    /\ mem'.rel[t]["surface"] = 0
                    /\ mem'.rel[surf[t].userdata]["frame"] = 0
                    /\ ~mem'.bad]_vars

\* the Surface loaded second was destroyed, the one loaded first is held
C8_Witness ==
    /\ JustDestroyed(2)
    /\ 1 \in Held
    /\ mem.res[1]["frame"] \in Live
    /\ surf[1].userdata = 1
    /\ mem.res[2]["frame"] = "freed"

DecodeFailed ==
    /\ returned[op[2]] = NULL
    /\ mem.res[op[2]]["frame"] = "freed"
    /\ mem.res[op[2]]["packet"] = "freed"
    /\ mem.res[op[2]]["surface"] = "none"
    /\ \/ Logged("Could not send icon packet")
       \/ Logged("Could not receive icon frame")

\* C9 as stated: any non-zero status of the packet submit or of the frame
\* request, negative or positive, makes load fail.
C9_Original ==
    (JustLoaded /\ \E i \in DOMAIN ret_hist : ret_hist[i] # 0) => DecodeFailed

\* C9 amended: any negative status of the packet submit, and any non-zero
\* status (negative or positive) of the frame request, makes load fail with
\* decode failed: no Surface is returned and the frame and the packet are
\* released; a positive status of the packet submit is taken as success.
C9_DecodeStatus ==
    /\ (JustLoaded /\ Len(ret_hist) >= 1 /\ ret_hist[1] < 0) => DecodeFailed
    /\ (JustLoaded /\ Len(ret_hist) = 2 /\ ret_hist[2] # 0) => DecodeFailed
    /\ (pc = "receive_frame" /\ Len(ret_hist) = 1) => ret_hist[1] >= 0

\* a positive status of the frame request, after a positive status of the
\* packet submit
C9_Witness ==
    /\ JustLoaded
    /\ ret_hist = <<1, 1>>
    /\ returned[op[2]] = NULL
    /\ Logged("Could not receive icon frame")

ForwardSeq ==
    <<"avformat_alloc_context", "avformat_open_input",
      "avformat_find_stream_info", "av_find_best_stream",
      "avcodec_find_decoder", "avcodec_alloc_context3",
      "avcodec_parameters_to_context", "avcodec_open2", "av_frame_alloc",
      "av_packet_alloc", "av_read_frame", "avcodec_send_packet",
      "avcodec_receive_frame", "av_pix_fmt_desc_get", "to_sdl_pixel_format",
      "SDL_CreateRGBSurfaceWithFormatFrom">>

ForwardOps == {ForwardSeq[i] : i \in DOMAIN ForwardSeq}

\* the acquiring and decoding calls made so far, in the order made
RECURSIVE ForwardOf(_)
ForwardOf(cs) ==
    IF cs = <<>> THEN <<>>
    ELSE IF Head(cs) \in ForwardOps
         THEN <<Head(cs)>> \o ForwardOf(Tail(cs))
         ELSE ForwardOf(Tail(cs))

\* the stage a call belongs to
StageOfCall(fn) ==
    CASE fn = "avformat_alloc_context" -> "container allocation"
      [] fn = "avformat_open_input" -> "container open"
      [] fn = "avformat_find_stream_info" -> "stream info"
      [] fn = "av_find_best_stream" -> "stream selection"
      [] fn = "avcodec_find_decoder" -> "decoder lookup"
      [] fn \in {"avcodec_alloc_context3", "avcodec_parameters_to_context",
                 "avcodec_open2"} -> "decoder init"
      [] fn \in {"av_frame_alloc", "av_packet_alloc", "av_read_frame",
                 "avcodec_send_packet", "avcodec_receive_frame"} -> "decode"
      [] fn = "to_sdl_pixel_format" -> "format mapping"
      [] fn = "SDL_CreateRGBSurfaceWithFormatFrom" -> "surface creation"
      [] OTHER -> "none"

\* the stage at which a call of load that returned absent failed, read from
\* the calls it made: the last acquiring or decoding call is the one that
\* failed; after the descriptor lookup the frame's format tells whether the
\* lookup or the layout check failed
FailedStage ==
    LET fwd == ForwardOf(calls)
    IN IF fwd = <<>> THEN "path resolution"
       ELSE IF fwd[Len(fwd)] = "av_pix_fmt_desc_get"
            THEN IF av_pix_fmt_desc_get(image.format) = NoDesc
                 THEN "descriptor lookup" ELSE "layout rejection"
            ELSE StageOfCall(fwd[Len(fwd)])

\* the stage each diagnostic names
StageOfDiagnostic(msg) ==
    CASE msg \in {"Could not allocate memory", "Could not get icon path"} ->
           "path resolution"
      [] msg = "Could not allocate image decoder context" ->
           "container allocation"
      [] msg = "Could not open image codec: %s" -> "container open"
      [] msg = "Could not find image stream info" -> "stream info"
      [] msg = "Could not find best image stream" -> "stream selection"
      [] msg = "Could not find image decoder" -> "decoder lookup"
      [] msg \in {"Could not allocate codec context",
                  "Could not fill codec context",
                  "Could not open image codec"} -> "decoder init"
      [] msg \in {"Could not allocate frame", "Could not allocate packet",
                  "Could not read frame", "Could not send icon packet",
                  "Could not receive icon frame"} -> "decode"
      [] msg = "Could not get icon format descriptor" -> "descriptor lookup"
      [] msg = "Could not load non-RGB icon" -> "layout rejection"
      [] msg = "Unsupported icon pixel format" -> "format mapping"
      [] msg = "Could not create icon surface" -> "surface creation"
      [] OTHER -> "unknown"

\* C11: every failing call of load has emitted exactly one diagnostic when it
\* returns absent, a successful call has emitted none, and the diagnostic
\* determines the failing stage, so that failures at two different stages
\* never emit the same diagnostic.
C11_DiagnosticNamesStage ==
    JustLoaded =>
        IF returned[op[2]] = NULL
        THEN /\ Len(errs) = 1
             /\ StageOfDiagnostic(errs[1]) = FailedStage
        ELSE errs = <<>>

\* the decoder could not be opened: the diagnostic differs from the one of
\* the container open only by the path that follows it there
C11_Witness ==
    /\ JustLoaded
    /\ returned[op[2]] = NULL
    /\ errs = <<"Could not open image codec">>
    /\ ForwardOf(calls)[Len(ForwardOf(calls))] = "avcodec_open2"

\* the frame's format has a descriptor and is not RGB, or is planar
ImageNotPackedRGB ==
    /\ av_pix_fmt_desc_get(image.format) # NoDesc
    /\ ~ImagePackedRGB

\* C12: a frame whose format is not RGB or is planar (planar RGB included)
\* always fails with unsupported layout and never reaches the mapping table;
\* a frame whose format is packed RGB but absent from the table always fails
\* with unmapped format; in both cases the frame is released before the
\* failure is returned.
C12_RejectionsByStructure ==
    /\ ImageNotPackedRGB =>
          /\ ~Called("to_sdl_pixel_format")
          /\ pc # "to_sdl_pixel_format"
          /\ ((JustLoaded /\ AdapterEntered) =>
                errs = <<"Could not load non-RGB icon">>)
    /\ (ImagePackedRGB /\ image.format \notin TableAVFormats
          /\ JustLoaded /\ AdapterEntered) =>
          /\ Called("to_sdl_pixel_format")
          /\ errs = <<"Unsupported icon pixel format">>
    /\ (ImageNotPackedRGB
          \/ (ImagePackedRGB /\ image.format \notin TableAVFormats)) =>
          /\ ((pc = "free_path" /\ AdapterEntered) =>
                (mem.res[cur]["frame"] = "freed" /\ icon = NULL))
          /\ ((JustLoaded /\ AdapterEntered) =>
                /\ returned[op[2]] = NULL
                /\ mem.rel[op[2]]["frame"] = 1
                /\ mem.res[op[2]]["frame"] = "freed")

\* a planar RGB frame was rejected for its layout
C12_Witness ==
    /\ JustLoaded
    /\ image.format = "GBRP"
    /\ AdapterEntered
    /\ errs = <<"Could not load non-RGB icon">>
    /\ mem.res[op[2]]["frame"] = "freed"

\* the decoder context could not be initialised
DecoderInitFailed ==
    \/ Logged("Could not fill codec context")
    \/ Logged("Could not open image codec")

\* C13: when the copy of the stream parameters or the open of the decoder
\* fails, the allocated decoder context is still released exactly once, and
\* then the container; avcodec_close is applied only to a decoder context
\* whose open succeeded.
C13_UnopenedDecoderReleased ==
    /\ pc = "close_codec" => mem.res[cur]["codec_ctx"] = "open"
    /\ (op[1] = "load" /\ Called("avcodec_close")) =>
          (Called("avcodec_open2") /\ ~DecoderInitFailed)
    /\ (JustLoaded /\ DecoderInitFailed) =>
          /\ returned[op[2]] = NULL
          /\ ~Called("avcodec_close")
          /\ mem.rel[op[2]]["codec_ctx"] = 1
          /\ mem.rel[op[2]]["ctx"] = 1
          /\ Pos("codec_ctx", op[2]) # 0
          /\ Pos("codec_ctx", op[2]) < Pos("ctx", op[2])
          /\ LiveKinds(op[2]) = {}

\* the parameter copy failed: decoder context, container, path are released
C13_Witness ==
    /\ JustLoaded
    /\ errs = <<"Could not fill codec context">>
    /\ mem.order = << <<"codec_ctx", op[2]>>, <<"ctx", op[2]>>,
                      <<"path", op[2]>> >>

\* how many times the running API call has called fn
Count(fn) == Cardinality({i \in DOMAIN calls : calls[i] = fn})

\* the acquiring and decoding calls of decode_image
DecodeOps ==
    {"avformat_open_input", "avformat_find_stream_info",
     "av_find_best_stream", "avcodec_find_decoder", "avcodec_alloc_context3",
     "avcodec_parameters_to_context", "avcodec_open2", "av_frame_alloc",
     "av_packet_alloc", "av_read_frame", "avcodec_send_packet",
     "avcodec_receive_frame"}

\* the acquiring and decoding calls of decode_image made so far by the
\* running API call, in the order made
DecodeCalls == SelectSeq(calls, LAMBDA fn : fn \in DecodeOps)

\* the calls made so far whose status is assigned to ret
StatusCalls ==
    SelectSeq(calls, LAMBDA fn : fn \in {"avcodec_send_packet",
                                         "avcodec_receive_frame"})

\* C14: within one call of load each acquiring or decoding call of the
\* framework is made at most once: one packet is read, nothing is retried
\* after a failed or transient status, and there is no second receive.
C14_EachStepOnce ==
    op[1] = "load" =>
        /\ Cardinality({DecodeCalls[i] : i \in DOMAIN DecodeCalls})
              = Len(DecodeCalls)
        /\ Len(ret_hist) <= 2
        /\ Len(ret_hist) = Len(StatusCalls)
        /\ (pc = "idle" /\ Len(ret_hist) = 2 /\ ret_hist[2] # 0) =>
              returned[op[2]] = NULL

\* a call that went through: every one of the twelve calls was made once
C14_Witness ==
    /\ JustLoaded
    /\ returned[op[2]] = op[2]
    /\ \A fn \in DecodeOps : Count(fn) = 1
    /\ ret_hist = <<0, 0>>

IsPrefix(s, t) ==
    /\ Len(s) <= Len(t)
    /\ \A i \in DOMAIN s : s[i] = t[i]

\* the calls that release
ReleaseOps ==
    {"avcodec_close", "avcodec_free_context", "avformat_close_input",
     "avformat_free_context", "av_packet_free", "av_frame_free", "free"}

\* the calls a step adds to the calls of the running API call
NewCalls == {calls'[i] : i \in (DOMAIN calls') \ (DOMAIN calls)}

\* C15: the stages run strictly forward, each call of a stage being made
\* only after all calls before it succeeded, and once a call has failed no
\* further object is acquired in that call of load: only releases follow.
C15_ForwardThenReleaseOnly ==
    /\ [](op[1] = "load" => IsPrefix(ForwardOf(calls), ForwardSeq))
    /\ [][(cur # NULL /\ errs # <<>>) =>
            /\ IsPrefix(calls, calls')
            /\ NewCalls \subseteq ReleaseOps
            /\ \A c \in CallIds, kind \in Kinds :
                  mem'.res[c][kind] \in Live => mem.res[c][kind] \in Live]_vars

\* the packet could not be read: eleven calls forward, then releases only
C15_Witness ==
    /\ JustLoaded
    /\ errs = <<"Could not read frame">>
    /\ ForwardOf(calls) = SubSeq(ForwardSeq, 1, 11)
    /\ calls[Len(calls)] = "free"
    /\ LiveKinds(op[2]) = {}

\* the positions of the SurfaceAdapter stage
AdapterPcs ==
    {"desc_get", "check_packed_rgb", "to_sdl_pixel_format", "create_surface",
     "error"}

\* C16: when load returns a Surface, the packet, the decoder context and the
\* container context of the call are already released, and they are released
\* before the SurfaceAdapter stage starts; all that is still allocated from
\* the call is the decoded frame and the Surface over its pixel memory.
C16_OnlyFrameAndSurfaceRemain ==
    /\ pc \in AdapterPcs =>
          /\ \A kind \in {"packet", "codec_ctx", "ctx"} :
                mem.res[cur][kind] = "freed" /\ mem.rel[cur][kind] = 1
          /\ packet = NULL /\ codec_ctx = NULL /\ ctx = NULL
    /\ (JustLoaded /\ returned[op[2]] = op[2]) =>
          /\ LiveKinds(op[2]) = {"frame", "surface"}
          /\ \A kind \in {"packet", "codec_ctx", "ctx", "path"} :
                mem.res[op[2]][kind] = "freed" /\ mem.rel[op[2]][kind] = 1
          /\ surf[op[2]].pixels = surf[op[2]].userdata
          /\ surf[op[2]].userdata = op[2]

\* about to create the Surface: of the decode objects only the frame is left
C16_Witness ==
    /\ pc = "create_surface"
    /\ mem.res[cur]["frame"] \in Live
    /\ mem.res[cur]["packet"] = "freed"
    /\ mem.res[cur]["codec_ctx"] = "freed"
    /\ mem.res[cur]["ctx"] = "freed"

\* C17: every Surface load has returned, until destroy is called on it, has
\* an allocated frame attached as its userdata, so the assertion of destroy
\* cannot fail for it; the caller never sees a Surface without its frame.
C17_FrameAttachedWhileHeld ==
    /\ pc # "abort"
    /\ \A s \in Held :
          /\ surf[s].userdata # NULL
          /\ mem.res[surf[s].userdata]["frame"] \in Live
          /\ frames[surf[s].userdata] # NoFrame

\* the caller holds two Surfaces, each with its own frame
C17_Witness ==
    /\ pc = "idle"
    /\ Held = {1, 2}
    /\ surf[1].userdata = 1 /\ surf[2].userdata = 2
    /\ mem.res[1]["frame"] \in Live /\ mem.res[2]["frame"] \in Live

\* C18: in every call of load in which the path was resolved the path string
\* is released exactly once, after the decode and SurfaceAdapter stages have
\* finished, whether they succeeded or not; when the path resolution fails
\* load returns absent without allocating any object of the framework.
C18_PathReleasedOnceAtEnd ==
    /\ (cur # NULL /\ pc # "get_icon_path") =>
          /\ icon_path = cur
          /\ mem.res[cur]["path"] \in Live
          /\ mem.rel[cur]["path"] = 0
          /\ ~Called("free")
    /\ JustLoaded =>
          IF Len(calls) > 2
          THEN /\ mem.res[op[2]]["path"] = "freed"
               /\ mem.rel[op[2]]["path"] = 1
               /\ mem.order[Len(mem.order)] = <<"path", op[2]>>
               /\ calls[Len(calls)] = "free"
               /\ Count("free") = 1
          ELSE /\ returned[op[2]] = NULL
               /\ ForwardOf(calls) = <<>>
               /\ mem.order = <<>>
               /\ \A kind \in Kinds : mem.res[op[2]][kind] = "none"
               /\ StageOfDiagnostic(errs[1]) = "path resolution"

\* the decoder was not found: the path is the last object released
C18_Witness ==
    /\ JustLoaded
    /\ errs = <<"Could not find image decoder">>
    /\ mem.order = << <<"ctx", op[2]>>, <<"path", op[2]>> >>
    /\ mem.rel[op[2]]["path"] = 1

====
